---- MODULE Spec2Model ----
(***************************************************************************)
(* A model of the Wordle solver of WorldeSimulator/worldle.py:             *)
(* get_feedback, filter_words, score_word and simulate_game_stats.         *)
(*                                                                         *)
(* A word is a function from the positions 0 .. n-1 to letters (one-letter *)
(* strings), as a Python str indexed from 0.  Python lists are sequences,  *)
(* dicts are functions on their key set, sets are sets.  The list `yellow` *)
(* is only ever iterated with "all elements pass", so it is kept as the    *)
(* set of its (letter, position) pairs.                                    *)
(***************************************************************************)
EXTENDS Integers, Sequences, FiniteSets, TLC

VARIABLES
    target_word,     \* simulate_game_stats: parameter target_word
    word_list,       \* simulate_game_stats: parameter word_list (the corpus)
    tables,          \* the four frequency tables passed to simulate_game_stats
    pc,              \* position in simulate_game_stats
    green,           \* dict position -> letter
    yellow,          \* (letter, position) pairs
    gray,            \* set of letters
    attempts,
    possible_words,
    used_guesses,
    guess_log,
    guess,           \* the guess of the current iteration
    ret,             \* the returned pair (attempts or None, guess_log)
    outcome,         \* which return statement was taken
    args,            \* arguments of a direct call of get_feedback / filter_words
    out              \* its result

vars == <<target_word, word_list, tables, pc, green, yellow, gray, attempts,
          possible_words, used_guesses, guess_log, guess, ret, outcome, args, out>>

simVars == <<target_word, word_list, tables, pc, green, yellow, gray, attempts,
             possible_words, used_guesses, guess_log, guess, ret, outcome>>

-----------------------------------------------------------------------------
(* Bounds of the model *)

\* longest freely ordered corpus drawn from Pool
MaxCorpus == 3

\* length of the one-letter-apart corpus that can outlast the attempt budget
ChainLen == 13

\* word length and longest candidate list in the direct calls of filter_words
FLen == 2

FMaxWords == 2

-----------------------------------------------------------------------------
(* Program constants *)

\* range(5), range(4), range(3) in score_word and get_positional_probs
WordLen == 5

max_attempts == 12

\* Python's None, a value no attempt count takes
None == -1

\* weights of the main block, in quarters; repeat_penalty in tenths
weights == [letter |-> 4, bigram |-> 2, trigram |-> 1, position |-> 3,
            repeat_penalty |-> 9]

\* the factor 1.0 of score_word when no letter repeats, in tenths
NoPenalty == 10

-----------------------------------------------------------------------------
(* Letters and words *)

Alphabet == <<"a", "b", "c", "d", "e", "f", "g", "h", "i", "j", "k", "l", "m",
              "n", "o", "p", "q", "r", "s", "t", "u", "v", "w", "x", "y", "z">>

\* a str from the tuple of its letters
Word(s) == [i \in 0 .. Len(s) - 1 |-> s[i + 1]]

\* len(word)
WLen(word) == Cardinality(DOMAIN word)

\* ch in word
In(ch, word) == \E i \in DOMAIN word : word[i] = ch

\* word.count(ch)
count(word, ch) == Cardinality({i \in DOMAIN word : word[i] = ch})

\* set(word)
LetterSet(word) == {word[i] : i \in DOMAIN word}

\* the elements of a list
Range(s) == {s[k] : k \in DOMAIN s}

\* sum(...) over a list of numbers
RECURSIVE SumUpTo(_, _)
SumUpTo(s, n) == IF n = 0 THEN 0 ELSE SumUpTo(s, n - 1) + s[n]

SumSeq(s) == SumUpTo(s, Len(s))

\* sum(counts.values()) of a Counter: the number of things counted
SumCounts(counts) ==
    Cardinality(UNION {{<<key, j>> : j \in 1 .. counts[key]} : key \in DOMAIN counts})

-----------------------------------------------------------------------------
(* get_feedback *)

\* mutant: the naive presence test, without the count comparison
WithinCountNaive(g, actual, ch) == TRUE

\* guess.count(ch) <= actual.count(ch)
WithinCount(g, actual, ch) == count(g, ch) <= count(actual, ch)

get_feedback(g, actual) ==
    LET hit  == {i \in DOMAIN g : g[i] = actual[i]}
        miss == {i \in DOMAIN g : g[i] # actual[i] /\ In(g[i], actual)
                                   /\ WithinCount(g, actual, g[i])}
        rest == (DOMAIN g \ hit) \ miss
    IN  [green  |-> [i \in hit |-> g[i]],
         yellow |-> {<<g[i], i>> : i \in miss},
         gray   |-> {g[i] : i \in rest}]

-----------------------------------------------------------------------------
(* filter_words *)

\* green.values()
Values(d) == {d[p] : p \in DOMAIN d}

\* the letters of the pairs of yellow
YellowLetters(y) == {pr[1] : pr \in y}

\* mutant: the exemption forgets the misplaced letters
GrayRejectsNoYellow(word, ch, gr, y) == In(ch, word) /\ ch \notin Values(gr)

\* the test of the gray loop
GrayRejects(word, ch, gr, y) ==
    In(ch, word) /\ ch \notin Values(gr) /\ \A pr \in y : ch # pr[1]

\* the value of `valid` when the loops over one word end
Valid(word, gr, y, gy) ==
    /\ \A pos \in DOMAIN gr : word[pos] = gr[pos]
    /\ \A pr \in y : In(pr[1], word) /\ word[pr[2]] # pr[1]
    /\ \A ch \in gy : ~GrayRejects(word, ch, gr, y)

filter_words(words, gr, y, gy) ==
    SelectSeq(words, LAMBDA word : Valid(word, gr, y, gy))

-----------------------------------------------------------------------------
(* Frequency tables.  A probability count / total is kept as the count, with *)
(* the total of its table beside it: [count |-> dict, total |-> number].     *)

\* word[i:i+n]
NGram(word, i, n) == [j \in 1 .. n |-> word[i + j - 1]]

\* ''.join(words), as the number of times ch occurs in it
JoinedCount(words, ch) == SumSeq([k \in 1 .. Len(words) |-> count(words[k], ch)])

get_letter_probs(words) ==
    LET counts == [ch \in UNION {LetterSet(words[k]) : k \in 1 .. Len(words)}
                      |-> JoinedCount(words, ch)]
    IN  [count |-> counts, total |-> SumCounts(counts)]

\* the windows range(len(word) - n + 1) of one word
Windows(word, n) == 0 .. WLen(word) - n

get_ngram_probs(words, n) ==
    LET seen == UNION {{NGram(words[k], i, n) : i \in Windows(words[k], n)}
                          : k \in 1 .. Len(words)}
        counts == [ng \in seen |->
                      SumSeq([k \in 1 .. Len(words) |->
                          Cardinality({i \in Windows(words[k], n) :
                                          NGram(words[k], i, n) = ng})])]
    IN  [count |-> counts, total |-> SumCounts(counts)]

get_positional_probs(words) ==
    [i \in 0 .. WordLen - 1 |->
        LET counts == [ch \in {words[k][i] : k \in 1 .. Len(words)} |->
                          Cardinality({k \in 1 .. Len(words) : words[k][i] = ch})]
        IN  [count |-> counts, total |-> SumCounts(counts)]]

\* the main block: the four tables built from the corpus
Stats(words) ==
    [letter_probs  |-> get_letter_probs(words),
     bigram_probs  |-> get_ngram_probs(words, 2),
     trigram_probs |-> get_ngram_probs(words, 3),
     pos_probs     |-> get_positional_probs(words)]

-----------------------------------------------------------------------------
(* score_word.  Every probability is multiplied by Denominator(t), a common *)
(* multiple of the totals of the tables of t (the positional totals are the  *)
(* number of words, which divides the others), the weights are in quarters   *)
(* and the penalty in tenths: the value is the score times                   *)
(* 40 * Denominator(t), exactly, so it orders words as the exact score does. *)
(* The code computes the score in floating point, where rounding can split   *)
(* an exact tie; on the corpora of Corpora (also with one more word) the     *)
(* float scores compare exactly as these values do.                          *)

Denominator(t) ==
    t.letter_probs.total * t.bigram_probs.total * t.trigram_probs.total

\* probs.get(key, 0), times Denominator(t)
Get(t, probs, key) ==
    IF key \in DOMAIN probs.count
    THEN (probs.count[key] * Denominator(t)) \div probs.total
    ELSE 0

score_word(word, t, w) ==
    LET unique_letters == LetterSet(word)
        repeat_penalty == IF Cardinality(unique_letters) < WordLen
                          THEN w.repeat_penalty ELSE NoPenalty
        \* each letter of set(word) once: at the first position that holds it
        letter_score   == SumSeq([i \in 1 .. WordLen |->
                              IF \A j \in 0 .. i - 2 : word[j] # word[i - 1]
                              THEN Get(t, t.letter_probs, word[i - 1]) ELSE 0])
        bigram_score   == SumSeq([i \in 1 .. WordLen - 1 |->
                              Get(t, t.bigram_probs, NGram(word, i - 1, 2))])
        trigram_score  == SumSeq([i \in 1 .. WordLen - 2 |->
                              Get(t, t.trigram_probs, NGram(word, i - 1, 3))])
        position_score == SumSeq([i \in 1 .. WordLen |->
                              Get(t, t.pos_probs[i - 1], word[i - 1])])
    IN  repeat_penalty * ( w.letter * letter_score
                         + w.bigram * bigram_score
                         + w.trigram * trigram_score
                         + w.position * position_score )

-----------------------------------------------------------------------------
(* sorted(possible_words, key = score, reverse = True): a stable sort, so    *)
(* words of equal score keep the order they have in possible_words.          *)

\* mutant: an unstable sort, which puts a later word before its equals
RankUnstable(words, key, k) ==
    1 + Cardinality({j \in 1 .. Len(words) :
            \/ key[words[j]] > key[words[k]]
            \/ key[words[j]] = key[words[k]] /\ j > k})

\* the place of words[k] in the sorted list: behind the words of greater key and
\* behind the words of equal key that precede it in the list
Rank(words, key, k) ==
    1 + Cardinality({j \in 1 .. Len(words) :
            \/ key[words[j]] > key[words[k]]
            \/ key[words[j]] = key[words[k]] /\ j < k})

SortedDesc(words, key) ==
    [r \in 1 .. Len(words) |->
        words[CHOOSE k \in 1 .. Len(words) : Rank(words, key, k) = r]]

\* the keys of the sort: the score of every word of the list, computed once
Keys(words, t, w) == [x \in Range(words) |-> score_word(x, t, w)] @@ <<>>

\* the list `scored` of one iteration
Scored(words, used, t, w) ==
    CHOOSE scored \in {SelectSeq(SortedDesc(words, key), LAMBDA x : x \notin used)
                          : key \in {Keys(words, t, w)}} : TRUE

-----------------------------------------------------------------------------
(* Direct calls of get_feedback *)

FbLetters == {"a", "b", "c"}

FbWords == [0 .. WordLen - 1 -> FbLetters]

Idle == [fn |-> "none"]

SimIdle ==
    /\ target_word = <<>> /\ word_list = <<>> /\ tables = <<>> /\ pc = "idle"
    /\ green = <<>> /\ yellow = {} /\ gray = {} /\ attempts = 0
    /\ possible_words = <<>> /\ used_guesses = {} /\ guess_log = <<>>
    /\ guess = <<>> /\ ret = <<>> /\ outcome = "none"

FeedbackInit ==
    /\ SimIdle
    /\ \E g \in FbWords, actual \in FbWords :
          args = [fn |-> "get_feedback", guess |-> g, actual |-> actual]
    /\ out = [returned |-> FALSE]

CallFeedback ==
    /\ args.fn = "get_feedback"
    /\ ~out.returned
    /\ out' = [returned |-> TRUE, fb |-> get_feedback(args.guess, args.actual)]
    /\ UNCHANGED <<args, simVars>>

FeedbackNext == CallFeedback

FeedbackSpec == FeedbackInit /\ [][FeedbackNext]_vars

-----------------------------------------------------------------------------
(* simulate_game_stats *)

\* the corpus words of the bounded runs: three letters, repeated letters in
\* every word, so that a guess can hold a letter more often than the target
Pool == { Word(<<"a", "b", "a", "b", "b">>), Word(<<"c", "c", "c", "c", "c">>),
          Word(<<"a", "c", "a", "b", "a">>), Word(<<"b", "c", "c", "c", "c">>),
          Word(<<"b", "c", "c", "c", "b">>), Word(<<"b", "c", "b", "b", "c">>),
          Word(<<"a", "a", "b", "c", "a">>) }

\* ChainLen words that differ in their first letter only
ChainCorpus == [k \in 1 .. ChainLen |-> Word(<<Alphabet[k], "a", "a", "a", "a">>)]

\* the corpora: lists of distinct words
Corpora ==
    {c \in UNION {[1 .. n -> Pool] : n \in 0 .. MaxCorpus} :
        \A j, k \in DOMAIN c : j # k => c[j] # c[k]}
    \cup {ChainCorpus}

FnIdle == args = Idle /\ out = Idle

Init ==
    /\ word_list \in Corpora
    /\ target_word \in Pool \cup Range(word_list)
    /\ tables = Stats(word_list)
    /\ pc = "call"
    /\ green = <<>> /\ yellow = {} /\ gray = {}
    /\ attempts = 0
    /\ possible_words = <<>>
    /\ used_guesses = {}
    /\ guess_log = <<>>
    /\ guess = <<>>
    /\ ret = <<>>
    /\ outcome = "none"
    /\ FnIdle

\* mutant: an empty corpus is let through to the loop
TargetMissingUnlessEmpty(target, words) == words # <<>> /\ target \notin Range(words)

\* target_word not in word_list
TargetMissing(target, words) == target \notin Range(words)

\* mutant: the budget test is off by one, one guess early
BudgetSpentEarly(n) == n >= max_attempts - 1

\* mutant: the budget test is off by one, one guess late
BudgetSpentLate(n) == n > max_attempts

\* attempts >= max_attempts
BudgetSpent(n) == n >= max_attempts

\* mutant: the size logged is that of the pool without the guess
LogEntryAfterGuess(g, words) == <<g, Len(words) - 1>>

\* (guess, len(possible_words))
LogEntry(g, words) == <<g, Len(words)>>

\* return x, y
Return(how, n, log) ==
    /\ ret' = [attempts |-> n, guess_log |-> log]
    /\ outcome' = how
    /\ pc' = "done"

Reject ==
    /\ pc = "call"
    /\ TargetMissing(target_word, word_list)
    /\ Return("invalid", None, <<>>)
    /\ UNCHANGED <<target_word, word_list, tables, green, yellow, gray, attempts,
                   possible_words, used_guesses, guess_log, guess, args, out>>

Begin ==
    /\ pc = "call"
    /\ ~TargetMissing(target_word, word_list)
    /\ green' = <<>> /\ yellow' = {} /\ gray' = {}
    /\ attempts' = 0
    /\ possible_words' = word_list
    /\ used_guesses' = {}
    /\ guess_log' = <<>>
    /\ pc' = "select"
    /\ UNCHANGED <<target_word, word_list, tables, guess, ret, outcome, args, out>>

StuckEmpty ==
    /\ pc = "select"
    /\ possible_words = <<>>
    /\ Return("stuck_empty", None, guess_log)
    /\ UNCHANGED <<target_word, word_list, tables, green, yellow, gray, attempts,
                   possible_words, used_guesses, guess_log, guess, args, out>>

StuckNoNew ==
    /\ pc = "select"
    /\ possible_words # <<>>
    /\ Scored(possible_words, used_guesses, tables, weights) = <<>>
    /\ Return("stuck_no_new", None, guess_log)
    /\ UNCHANGED <<target_word, word_list, tables, green, yellow, gray, attempts,
                   possible_words, used_guesses, guess_log, guess, args, out>>

Guess ==
    /\ pc = "select"
    /\ possible_words # <<>>
    /\ LET scored == Scored(possible_words, used_guesses, tables, weights)
       IN  /\ scored # <<>>
           /\ guess' = scored[1]
           /\ used_guesses' = used_guesses \cup {scored[1]}
           /\ attempts' = attempts + 1
           /\ guess_log' = Append(guess_log, LogEntry(scored[1], possible_words))
    /\ pc' = "observe"
    /\ UNCHANGED <<target_word, word_list, tables, green, yellow, gray,
                   possible_words, ret, outcome, args, out>>

Solved ==
    /\ pc = "observe"
    /\ guess = target_word
    /\ Return("solved", attempts, guess_log)
    /\ UNCHANGED <<target_word, word_list, tables, green, yellow, gray, attempts,
                   possible_words, used_guesses, guess_log, guess, args, out>>

GiveUp ==
    /\ pc = "observe"
    /\ guess # target_word
    /\ BudgetSpent(attempts)
    /\ Return("exhausted", None, guess_log)
    /\ UNCHANGED <<target_word, word_list, tables, green, yellow, gray, attempts,
                   possible_words, used_guesses, guess_log, guess, args, out>>

Narrow ==
    /\ pc = "observe"
    /\ guess # target_word
    /\ ~BudgetSpent(attempts)
    /\ LET fb == get_feedback(guess, target_word)
           g  == fb.green @@ green         \* green.update(g)
           y  == yellow \cup fb.yellow     \* yellow += y
           r  == gray \cup fb.gray         \* gray.update(r)
       IN  /\ green' = g
           /\ yellow' = y
           /\ gray' = r
           /\ possible_words' = filter_words(possible_words, g, y, r)
    /\ pc' = "select"
    /\ UNCHANGED <<target_word, word_list, tables, attempts, used_guesses,
                   guess_log, guess, ret, outcome, args, out>>

Next ==
    \/ Reject
    \/ Begin
    \/ StuckEmpty
    \/ StuckNoNew
    \/ Guess
    \/ Solved
    \/ GiveUp
    \/ Narrow

Spec == Init /\ [][Next]_vars

\* the function runs to its return: nothing suspends it
FairSpec == Spec /\ WF_vars(Next)

-----------------------------------------------------------------------------
(* Claims about simulate_game_stats *)

TargetInCorpus == target_word \in Range(word_list)

Last(s) == s[Len(s)]

\* C1: with the target in the corpus the run returns, no more than 12 guesses are
\* ever issued, and a solved run's last logged guess is the target and its attempt
\* count is the number of guesses logged
C1_TerminatesWithinBudget ==
    /\ [](TargetInCorpus =>
            /\ attempts <= max_attempts
            /\ Len(guess_log) <= max_attempts
            /\ (outcome = "solved" =>
                  /\ ret.guess_log # <<>>
                  /\ Last(ret.guess_log)[1] = target_word
                  /\ ret.attempts = Len(ret.guess_log)))
    /\ (TargetInCorpus => <>(pc = "done"))

\* a run solved by its last affordable guess
C1_Witness ==
    /\ TargetInCorpus
    /\ outcome = "solved"
    /\ ret.attempts = max_attempts
    /\ Last(ret.guess_log)[1] = target_word

\* the shape only a run that spent its budget returns
IsExhaustedResult(r) == r.attempts = None /\ Len(r.guess_log) = max_attempts

\* C6: the result of a run that ends with no (unused) candidate is never one that a
\* run ending on the spent budget returns: the latter, and only it, is unsolved
\* with a log of 12 guesses
C6_StuckNotExhausted ==
    /\ outcome \in {"stuck_empty", "stuck_no_new"} =>
          /\ ret.attempts = None
          /\ ~IsExhaustedResult(ret)
    /\ outcome = "exhausted" => IsExhaustedResult(ret)
    /\ (pc = "done" /\ IsExhaustedResult(ret)) => outcome = "exhausted"

\* a run that ended without an unused candidate after issuing guesses
C6_Witness ==
    /\ outcome = "stuck_no_new"
    /\ Len(ret.guess_log) >= 2
    /\ ret.attempts = None

\* C7: a call whose target is not in the corpus returns at once, unsolved, with an
\* empty guess log and no guess issued, and leaves corpus and tables as they were
C7_RejectsUnknownTarget ==
    [][(pc = "call" /\ ~TargetInCorpus) =>
          /\ pc' = "done"
          /\ ret' = [attempts |-> None, guess_log |-> <<>>]
          /\ attempts' = 0 /\ guess_log' = <<>> /\ used_guesses' = {}
          /\ word_list' = word_list
          /\ tables' = tables]_vars

\* the call with an empty corpus has been rejected
C7_Witness ==
    /\ word_list = <<>>
    /\ outcome = "invalid"
    /\ ret = [attempts |-> None, guess_log |-> <<>>]

\* position in the alphabet
LetterIndex(ch) == CHOOSE k \in 1 .. Len(Alphabet) : Alphabet[k] = ch

\* u < v as Python compares str
LexLess(u, v) ==
    \E i \in DOMAIN u \cap DOMAIN v :
        /\ \A j \in 0 .. i - 1 : u[j] = v[j]
        /\ LetterIndex(u[i]) < LetterIndex(v[i])

\* at "observe": the candidates that were unused when the guess was chosen
UnusedBefore == {x \in Range(possible_words) : x \notin used_guesses \ {guess}}

\* those of them with the highest score
TopScored ==
    {x \in UnusedBefore :
        \A z \in UnusedBefore :
            score_word(z, tables, weights) <= score_word(x, tables, weights)}

\* the place of a word in a list of distinct words
IndexOf(words, x) == CHOOSE k \in 1 .. Len(words) : words[k] = x

\* C8 as stated: among the unused candidates of highest score the guess is the
\* lexicographically smallest
C8_LexicographicTieBreak ==
    pc = "observe" =>
        /\ guess \in TopScored
        /\ \A x \in TopScored : x = guess \/ LexLess(guess, x)

\* C8 as amended: among the unused candidates of highest score the guess is the one
\* that comes first in the candidate list, that is, in corpus order
C8_ListOrderTieBreak ==
    pc = "observe" =>
        /\ guess \in TopScored
        /\ \A x \in TopScored :
              IndexOf(possible_words, guess) <= IndexOf(possible_words, x)

\* a guess chosen among several top-scored candidates, not the smallest of them
C8_Witness ==
    /\ pc = "observe"
    /\ \E x \in TopScored : x # guess /\ LexLess(x, guess)

\* C9: one log entry per guess issued; the entry of the current guess holds the
\* size of the candidate list it was chosen from; the first size is the corpus
\* size and the sizes never increase
C9_GuessLog ==
    /\ Len(guess_log) = attempts
    /\ Len(guess_log) = Cardinality(used_guesses)
    /\ pc = "observe" => Last(guess_log) = <<guess, Len(possible_words)>>
    /\ guess_log # <<>> => guess_log[1][2] = Len(word_list)
    /\ \A k \in 1 .. Len(guess_log) - 1 : guess_log[k + 1][2] <= guess_log[k][2]
    /\ (pc = "select" /\ guess_log # <<>>) => Len(possible_words) <= Last(guess_log)[2]
    /\ pc = "done" /\ outcome # "invalid" => ret.guess_log = guess_log

\* a third guess chosen from fewer candidates than the first
C9_Witness ==
    /\ pc = "observe"
    /\ Len(guess_log) >= 3
    /\ Last(guess_log)[2] < guess_log[1][2]

\* C10: while the loop runs, a target that is in the corpus is in the candidate
\* list, and the run never ends with an empty candidate list
C10_TargetStaysCandidate ==
    TargetInCorpus =>
        /\ pc \in {"select", "observe"} => target_word \in Range(possible_words)
        /\ outcome # "stuck_empty"

-----------------------------------------------------------------------------
(* What a returned feedback says about position i of the guess g *)

SignalsFixed(fb, g, i) == i \in DOMAIN fb.green /\ fb.green[i] = g[i]

SignalsMisplaced(fb, g, i) == <<g[i], i>> \in fb.yellow

SignalsAbsent(fb, g, i) ==
    /\ i \notin DOMAIN fb.green
    /\ <<g[i], i>> \notin fb.yellow
    /\ g[i] \in fb.gray

\* the positions of g with letter ch that are signalled fixed or misplaced
PresentAt(fb, g, ch) ==
    {i \in DOMAIN g : g[i] = ch /\ (SignalsFixed(fb, g, i) \/ SignalsMisplaced(fb, g, i))}

AbsentAt(fb, g, ch) == {i \in DOMAIN g : g[i] = ch /\ SignalsAbsent(fb, g, i)}

\* C2: a letter the target holds once and the guess twice is signalled present
\* (fixed or misplaced) at exactly one of its two positions and absent at the other
C2_OneOfTwoPresent ==
    out.returned =>
        \A ch \in FbLetters :
            (count(args.actual, ch) = 1 /\ count(args.guess, ch) = 2) =>
                /\ Cardinality(PresentAt(out.fb, args.guess, ch)) = 1
                /\ Cardinality(AbsentAt(out.fb, args.guess, ch)) = 1

\* C3: every position of the guess is signalled as exactly one of fixed, misplaced,
\* absent, and no letter is signalled present more often than the target holds it;
\* "aaaaa" against "aabbb" has 2 present and 3 absent positions
C3_PartitionAndCount ==
    out.returned =>
        LET g == args.guess
            fb == out.fb
        IN  /\ \A i \in DOMAIN g :
                /\ SignalsFixed(fb, g, i) \/ SignalsMisplaced(fb, g, i) \/ SignalsAbsent(fb, g, i)
                /\ ~(SignalsFixed(fb, g, i) /\ SignalsMisplaced(fb, g, i))
            /\ \A ch \in FbLetters :
                Cardinality(PresentAt(fb, g, ch)) <= count(args.actual, ch)
            /\ (g = Word(<<"a", "a", "a", "a", "a">>)
                  /\ args.actual = Word(<<"a", "a", "b", "b", "b">>)) =>
                    /\ Cardinality(PresentAt(fb, g, "a")) = 2
                    /\ Cardinality(AbsentAt(fb, g, "a")) = 3

\* the call "aaaaa" against "aabbb" has returned
C3_Witness ==
    /\ out.returned
    /\ args.guess = Word(<<"a", "a", "a", "a", "a">>)
    /\ args.actual = Word(<<"a", "a", "b", "b", "b">>)
    /\ Cardinality(PresentAt(out.fb, args.guess, "a")) = 2

-----------------------------------------------------------------------------
(* Direct calls of filter_words: a candidate list, filtered again each time *)
(* one more constraint is added to green, yellow or gray                    *)

FLetters == {"a", "b"}

FWords == [0 .. FLen - 1 -> FLetters]

FLists ==
    {c \in UNION {[1 .. n -> FWords] : n \in 0 .. FMaxWords} :
        \A j, k \in DOMAIN c : j # k => c[j] # c[k]}

\* the call filter_words(words, green, yellow, gray)
Filter(a) == filter_words(a.words, a.green, a.yellow, a.gray)

FilterInit ==
    /\ SimIdle
    /\ \E ws \in FLists :
          args = [fn |-> "filter_words", words |-> ws,
                  green |-> <<>>, yellow |-> {}, gray |-> {}]
    /\ out = Filter(args)

AddFixed ==
    /\ args.fn = "filter_words"
    /\ \E pos \in (0 .. FLen - 1) \ DOMAIN args.green, ch \in FLetters :
          args' = [args EXCEPT !.green = (pos :> ch) @@ @]
    /\ out' = Filter(args')
    /\ UNCHANGED simVars

AddMisplaced ==
    /\ args.fn = "filter_words"
    /\ \E ch \in FLetters, pos \in 0 .. FLen - 1 :
          /\ <<ch, pos>> \notin args.yellow
          /\ args' = [args EXCEPT !.yellow = @ \cup {<<ch, pos>>}]
    /\ out' = Filter(args')
    /\ UNCHANGED simVars

AddAbsent ==
    /\ args.fn = "filter_words"
    /\ \E ch \in FLetters \ args.gray :
          args' = [args EXCEPT !.gray = @ \cup {ch}]
    /\ out' = Filter(args')
    /\ UNCHANGED simVars

FilterNext == AddFixed \/ AddMisplaced \/ AddAbsent

FilterSpec == FilterInit /\ [][FilterNext]_vars

\* the positions of word that hold ch
PositionsOf(word, ch) == {i \in DOMAIN word : word[i] = ch}

\* the positions green fixes to ch
FixedAt(gr, ch) == {p \in DOMAIN gr : gr[p] = ch}

\* C4: when a letter is absent, fixed somewhere and in no misplaced pair, a word
\* that is kept holds it at positions fixed to it only
C4_AbsentOnlyAtFixed ==
    \A k \in 1 .. Len(out) :
        \A ch \in args.gray :
            (ch \in Values(args.green) /\ ch \notin YellowLetters(args.yellow)) =>
                PositionsOf(out[k], ch) \subseteq FixedAt(args.green, ch)

\* the absent letters the filter acts on: those that are neither a fixed value nor
\* a misplaced letter
Enforced(a) == a.gray \ (Values(a.green) \cup YellowLetters(a.yellow))

\* C5 as stated: the result is no longer than the candidate list, and adding to
\* the constraints never makes it longer
C5_Monotone ==
    /\ [](Len(out) <= Len(args.words))
    /\ [][Len(out') <= Len(out)]_vars

\* C5 as amended: the result is no longer than the candidate list, and adding to
\* the constraints never makes it longer as long as no absent letter the filter
\* acted on becomes a fixed value or a misplaced letter
C5_MonotoneWhileEnforced ==
    /\ [](Len(out) <= Len(args.words))
    /\ [][Enforced(args) \subseteq Enforced(args') =>
            /\ Len(out') <= Len(out)
            /\ Range(out') \subseteq Range(out)]_vars

\* constraints with an absent letter that is also fixed, under which one word of
\* two has been dropped and the other kept
C5_Witness ==
    /\ args.fn = "filter_words"
    /\ Enforced(args) # args.gray
    /\ args.yellow # {}
    /\ Len(args.words) = 2
    /\ Len(out) = 1

====
